---- MODULE Spec2Model ----
(***************************************************************************)
(* Model of the twilight-self-backend verification servers.                *)
(*                                                                         *)
(* Three server variants exist in the repository:                          *)
(*   "legacy"   src/unnamed/part_002  (POST /api/verify only, no store)    *)
(*   "server"   src/server.mjs        (three POST endpoints)               *)
(*   "combined" src/unnamed/part_003  (three POST endpoints)               *)
(* The store gateway is src/database.mjs.  A deployment runs one variant;  *)
(* Init picks it.  Each request handler is split at its await points.      *)
(*                                                                         *)
(* Text (JS strings, text columns) is a sequence of character codes.       *)
(***************************************************************************)
EXTENDS Integers, Sequences, FiniteSets, TLC

\* variant        which server file the process runs
\* verifierReady  selfBackendVerifier !== null (part_003 lines 96-116)
\* storeHealthy   FALSE when queries on the pool may reject (database.mjs 5-11)
\* concurrency    how many requests the process has in flight at most
\* zkpass         rows of table zkpass (database.mjs 80-84), in insertion order
\* selfcheck      rows of table selfcheck (database.mjs 31-35), in insertion order
\* req            the handler activations, one per slot
\* served         requests received so far
\* sig            the last call of verifySignature (server.mjs 372-415)
VARIABLES variant, verifierReady, storeHealthy, concurrency,
          zkpass, selfcheck, req, served, sig

vars == <<variant, verifierReady, storeHealthy, concurrency,
          zkpass, selfcheck, req, served, sig>>

(***************************************************************************)
(* Bounds of the model.                                                    *)
(***************************************************************************)
MaxReqs == 3
MaxConc == 2

Slots == 1..MaxConc

(***************************************************************************)
(* JSON / JS values: undefined, null, booleans, numbers, strings, arrays   *)
(* of strings.                                                             *)
(***************************************************************************)
JUndef == [t |-> "undef"]
JNull == [t |-> "null"]
JBool(x) == [t |-> "bool", b |-> x]
JNum(x) == [t |-> "num", n |-> x]
JStr(x) == [t |-> "str", s |-> x]
JArr(x) == [t |-> "arr", a |-> x]

\* JS ToBoolean, as applied by !x, x || y and x ? a : b
Truthy(v) ==
    CASE v.t = "undef" -> FALSE
      [] v.t = "null" -> FALSE
      [] v.t = "bool" -> v.b
      [] v.t = "num" -> v.n # 0
      [] v.t = "str" -> v.s # <<>>
      [] v.t = "arr" -> TRUE

IsNullish(v) == v.t \in {"undef", "null"}

\* a ?? b
Coalesce(a, b) == IF IsNullish(a) THEN b ELSE a

\* a || b
OrElse(a, b) == IF Truthy(a) THEN a ELSE b

IsDigit(c) == c >= 48 /\ c <= 57

RECURSIVE DecimalValue(_)
DecimalValue(s) ==
    IF s = <<>> THEN 0
    ELSE 10 * DecimalValue(SubSeq(s, 1, Len(s) - 1)) + (s[Len(s)] - 48)

\* JS ToNumber on a string without whitespace, sign, point or exponent:
\* "" is 0, a run of decimal digits is its value, anything else is NaN.
StrToNumber(s) ==
    IF \A k \in 1..Len(s) : IsDigit(s[k])
    THEN [nan |-> FALSE, n |-> DecimalValue(s)]
    ELSE [nan |-> TRUE, n |-> 0]

\* Array.prototype.toString: the elements joined by ","
RECURSIVE JoinTexts(_)
JoinTexts(a) ==
    IF a = <<>> THEN <<>>
    ELSE IF Len(a) = 1 THEN a[1]
    ELSE a[1] \o <<44>> \o JoinTexts(Tail(a))

\* a === b; two arrays are two objects, never identical
StrictEq(a, b) ==
    /\ a.t = b.t
    /\ CASE a.t = "bool" -> a.b = b.b
         [] a.t = "num" -> a.n = b.n
         [] a.t = "str" -> a.s = b.s
         [] a.t = "arr" -> FALSE
         [] OTHER -> TRUE

BoolToNum(v) == IF v.t = "bool" THEN JNum(IF v.b THEN 1 ELSE 0) ELSE v

\* ToPrimitive: an array becomes its toString()
ToPrimitive(v) == IF v.t = "arr" THEN JStr(JoinTexts(v.a)) ELSE v

\* a == b (abstract equality) on undefined, null, booleans, numbers,
\* strings, and an array against a primitive
LooseEq(a, b) ==
    LET x == IF a.t = "arr" /\ b.t = "arr" THEN a ELSE ToPrimitive(BoolToNum(a))
        y == IF a.t = "arr" /\ b.t = "arr" THEN b ELSE ToPrimitive(BoolToNum(b))
    IN  CASE IsNullish(x) \/ IsNullish(y) -> IsNullish(x) /\ IsNullish(y)
          [] x.t = y.t -> StrictEq(x, y)
          [] x.t = "num" /\ y.t = "str" ->
                LET m == StrToNumber(y.s) IN ~m.nan /\ m.n = x.n
          [] x.t = "str" /\ y.t = "num" ->
                LET m == StrToNumber(x.s) IN ~m.nan /\ m.n = y.n

(***************************************************************************)
(* Hex decoding of the wallet address: Buffer.from(x, "hex").toString()    *)
(***************************************************************************)
HexDigit(c) ==
    CASE c >= 48 /\ c <= 57 -> c - 48
      [] c >= 97 /\ c <= 102 -> c - 87
      [] c >= 65 /\ c <= 70 -> c - 55
      [] OTHER -> -1

\* Buffer.from(s, "hex"): whole pairs of hex digits, stopping at the first
\* pair that is not hex; a trailing single digit is dropped.
RECURSIVE HexBytes(_)
HexBytes(s) ==
    IF Len(s) < 2 THEN <<>>
    ELSE IF HexDigit(s[1]) < 0 \/ HexDigit(s[2]) < 0 THEN <<>>
    ELSE <<16 * HexDigit(s[1]) + HexDigit(s[2])>> \o HexBytes(SubSeq(s, 3, Len(s)))

\* .toString("utf8") on single bytes: ASCII stays, a lone byte >= 128 is
\* not valid UTF-8 and becomes U+FFFD.
Utf8Text(bytes) == [k \in 1..Len(bytes) |-> IF bytes[k] < 128 THEN bytes[k] ELSE 65533]

\* String.prototype.startsWith
StartsWith(s, prefix) ==
    /\ Len(s) >= Len(prefix)
    /\ SubSeq(s, 1, Len(prefix)) = prefix

\* "twilight"
ChainPrefix == <<116, 119, 105, 108, 105, 103, 104, 116>>

(***************************************************************************)
(* Texts used as inputs.                                                   *)
(***************************************************************************)
HexChar(d) == IF d < 10 THEN 48 + d ELSE 87 + d

RECURSIVE HexEncode(_)
HexEncode(s) ==
    IF s = <<>> THEN <<>>
    ELSE <<HexChar(s[1] \div 16), HexChar(s[1] % 16)>> \o HexEncode(Tail(s))

\* "u1", "u2": subject identifiers
U1 == <<117, 49>>
U2 == <<117, 50>>
\* "twilight1a", "cosmos1a": wallet addresses
TwilightAddr == ChainPrefix \o <<49, 97>>
CosmosAddr == <<99, 111, 115, 109, 111, 115, 49, 97>>
\* "p1", "p2": serialised proofs
P1 == <<112, 49>>
P2 == <<112, 50>>
\* "1"
One == <<49>>

(***************************************************************************)
(* Store gateway (database.mjs).  Tables are sequences of rows: inserts    *)
(* append, nothing updates or deletes.                                     *)
(***************************************************************************)
\* "self", "zkpass": provider tags
ProviderSelf == <<115, 101, 108, 102>>
ProviderZkpass == <<122, 107, 112, 97, 115, 115>>

\* The driver's array literal: {"a","b"}
RECURSIVE PgArrayItems(_)
PgArrayItems(a) ==
    IF a = <<>> THEN <<>>
    ELSE <<34>> \o a[1] \o <<34>>
         \o (IF Len(a) = 1 THEN <<>> ELSE <<44>> \o PgArrayItems(Tail(a)))

\* A query parameter as the driver sends it to a text column: undefined and
\* null become NULL, a string is itself, a number or boolean its String(),
\* an array its array literal.
PgText(v) ==
    CASE IsNullish(v) -> [null |-> TRUE, s |-> <<>>]
      [] v.t = "str" -> [null |-> FALSE, s |-> v.s]
      [] v.t = "num" -> [null |-> FALSE, s |-> <<48 + v.n>>]
      [] v.t = "bool" -> [null |-> FALSE,
                          s |-> IF v.b THEN <<116, 114, 117, 101>>
                                ELSE <<102, 97, 108, 115, 101>>]
      [] v.t = "arr" -> [null |-> FALSE, s |-> <<123>> \o PgArrayItems(v.a) \o <<125>>]

\* CREATE TABLE public.zkpass: the three columns are NOT NULL
ZkpassAccepts(address, identifier, provider) ==
    /\ ~PgText(address).null
    /\ ~PgText(identifier).null
    /\ ~PgText(provider).null

\* An insert that binds the identifier to $1 and the address to $2
ZkpassRowSwapped(uniqueIdentifier, address, provider) ==
    [address |-> PgText(uniqueIdentifier).s,
     identifier |-> PgText(address).s,
     provider |-> PgText(provider).s]

\* INSERT INTO zkpass (address, identifier, provider) VALUES ($1, $2, $3)
ZkpassRow(uniqueIdentifier, address, provider) ==
    [address |-> PgText(address).s,
     identifier |-> PgText(uniqueIdentifier).s,
     provider |-> PgText(provider).s]

\* A gateway whose table has a unique key over its three columns: an insert
\* of a row that is already stored is rejected
saveVerificationUniqueKey(table, uniqueIdentifier, address, provider, down) ==
    IF \/ down
       \/ ~ZkpassAccepts(address, uniqueIdentifier, provider)
       \/ \E k \in 1..Len(table) : table[k] = ZkpassRow(uniqueIdentifier, address, provider)
    THEN [ok |-> FALSE, table |-> table]
    ELSE [ok |-> TRUE,
          table |-> Append(table, ZkpassRow(uniqueIdentifier, address, provider))]

\* A gateway that deduplicates: an insert for an (identifier, provider) pair
\* that already has a row is rejected
saveVerificationDedup(table, uniqueIdentifier, address, provider, down) ==
    IF \/ down
       \/ ~ZkpassAccepts(address, uniqueIdentifier, provider)
       \/ \E k \in 1..Len(table) :
             /\ table[k].identifier = PgText(uniqueIdentifier).s
             /\ table[k].provider = PgText(provider).s
    THEN [ok |-> FALSE, table |-> table]
    ELSE [ok |-> TRUE,
          table |-> Append(table, ZkpassRow(uniqueIdentifier, address, provider))]

\* saveVerification: ok is FALSE when the query rejects (store down or a
\* NOT NULL column given NULL) and the error is rethrown to the caller.
saveVerification(table, uniqueIdentifier, address, provider, down) ==
    IF down \/ ~ZkpassAccepts(address, uniqueIdentifier, provider)
    THEN [ok |-> FALSE, table |-> table]
    ELSE [ok |-> TRUE,
          table |-> Append(table, ZkpassRow(uniqueIdentifier, address, provider))]

\* A gateway that keeps one audit row per attestationId: the insert removes
\* the rows already stored for it
saveSelfCheckReplacing(table, attestationId, proof, down) ==
    IF down
    THEN [ok |-> FALSE, table |-> table]
    ELSE [ok |-> TRUE,
          table |-> Append(SelectSeq(table,
                               LAMBDA row : row.attestationId # PgText(attestationId).s),
                           [attestationId |-> PgText(attestationId).s,
                            proof |-> PgText(proof).s])]

\* saveSelfCheck: INSERT INTO selfcheck (attestationId, proof)
saveSelfCheck(table, attestationId, proof, down) ==
    IF down
    THEN [ok |-> FALSE, table |-> table]
    ELSE [ok |-> TRUE,
          table |-> Append(table, [attestationId |-> PgText(attestationId).s,
                                   proof |-> PgText(proof).s])]

\* checkAttestationExists: SELECT COUNT(*) ... WHERE attestationId = $1
checkAttestationExists(table, attestationId, down) ==
    IF down
    THEN [ok |-> FALSE, exists |-> FALSE]
    ELSE [ok |-> TRUE,
          exists |-> Cardinality({k \in 1..Len(table) :
                        table[k].attestationId = PgText(attestationId).s}) > 0]

\* Whether a store call can fail for reasons outside the request
StoreDown == IF storeHealthy THEN {FALSE} ELSE BOOLEAN

(***************************************************************************)
(* verifySignature (server.mjs): a synchronous function.  sig holds the    *)
(* arguments of the last call, what the ADR-036 library did when it was    *)
(* reached, and what the caller got back.                                  *)
(***************************************************************************)
PubkeyBytes == 33
SignatureBytes == 64

Rep(c, n) == [k \in 1..n |-> c]

\* A text of n characters: 'A's followed by `pads` '=' characters
B64Text(n, pads) == Rep(65, n - pads) \o Rep(61, pads)

\* [A-Za-z0-9+/]
IsB64Char(c) ==
    \/ c \in 65..90
    \/ c \in 97..122
    \/ c \in 48..57
    \/ c = 43
    \/ c = 47

\* /^[A-Za-z0-9+/]+={0,2}$/.test(s)
MatchesB64Pattern(s) ==
    \E pads \in 0..2 :
        /\ Len(s) >= pads + 1
        /\ \A k \in 1..(Len(s) - pads) : IsB64Char(s[k])
        /\ \A k \in (Len(s) - pads + 1)..Len(s) : s[k] = 61

\* assertBase64 does not throw
assertBase64(b64) ==
    /\ b64.t = "str"
    /\ Len(b64.s) % 4 = 0
    /\ MatchesB64Pattern(b64.s)

\* Buffer.from(s, "base64").length for a text that passed assertBase64: six
\* bits per character before the padding, whole bytes only
Base64ByteLength(s) ==
    (6 * Cardinality({k \in 1..Len(s) : s[k] # 61})) \div 8

\* toAscii does not throw: every character is printable ASCII
IsPrintableAscii(s) == \A k \in 1..Len(s) : s[k] \in 32..126

SigThrow(message) == [threw |-> TRUE, message |-> message]

\* A body that lets a signature with a trailing recovery byte through
verifySignatureBodyRecoveryByte(bech32Address, signatureB64, pubkeyB64, messageString, adr) ==
    IF bech32Address.t # "str" THEN SigThrow(<<"bech32Address must be a string">>)
    ELSE IF messageString.t # "str" THEN SigThrow(<<"messageString must be a string">>)
    ELSE IF ~assertBase64(signatureB64) THEN SigThrow(<<"signatureB64 is not valid base64">>)
    ELSE IF ~assertBase64(pubkeyB64) THEN SigThrow(<<"pubkeyB64 is not valid base64">>)
    ELSE IF ~IsPrintableAscii(messageString.s) THEN SigThrow(<<"toAscii">>)
    ELSE IF Base64ByteLength(pubkeyB64.s) # PubkeyBytes
         THEN SigThrow(<<"pubkey must be 33 bytes", Base64ByteLength(pubkeyB64.s)>>)
    ELSE IF Base64ByteLength(signatureB64.s) \notin {SignatureBytes, SignatureBytes + 1}
         THEN SigThrow(<<"signature must be 64 bytes", Base64ByteLength(signatureB64.s)>>)
    ELSE IF adr = "throws" THEN SigThrow(<<"verifyADR36Amino">>)
    ELSE [threw |-> FALSE, ok |-> adr = "true"]

\* The try block of verifySignature: the first failing check throws; adr is
\* what verifyADR36Amino does when it is reached ("true", "false", "throws")
verifySignatureBody(bech32Address, signatureB64, pubkeyB64, messageString, adr) ==
    IF bech32Address.t # "str" THEN SigThrow(<<"bech32Address must be a string">>)
    ELSE IF messageString.t # "str" THEN SigThrow(<<"messageString must be a string">>)
    ELSE IF ~assertBase64(signatureB64) THEN SigThrow(<<"signatureB64 is not valid base64">>)
    ELSE IF ~assertBase64(pubkeyB64) THEN SigThrow(<<"pubkeyB64 is not valid base64">>)
    ELSE IF ~IsPrintableAscii(messageString.s) THEN SigThrow(<<"toAscii">>)
    ELSE IF Base64ByteLength(pubkeyB64.s) # PubkeyBytes
         THEN SigThrow(<<"pubkey must be 33 bytes", Base64ByteLength(pubkeyB64.s)>>)
    ELSE IF Base64ByteLength(signatureB64.s) # SignatureBytes
         THEN SigThrow(<<"signature must be 64 bytes", Base64ByteLength(signatureB64.s)>>)
    ELSE IF adr = "throws" THEN SigThrow(<<"verifyADR36Amino">>)
    ELSE [threw |-> FALSE, ok |-> adr = "true"]

\* verifySignature: the body's result, or {ok: false, error} from the catch
verifySignature(bech32Address, signatureB64, pubkeyB64, messageString, adr) ==
    LET b == verifySignatureBody(bech32Address, signatureB64, pubkeyB64, messageString, adr)
    IN  IF b.threw THEN [ok |-> FALSE, error |-> b.message]
        ELSE [ok |-> b.ok]

SigIdle == [pc |-> "idle"]

(***************************************************************************)
(* Requests, verifier results and responses.  A request record holds the   *)
(* handler's position (pc), the request body, the verifier's result, the   *)
(* response sent, whether the external verifier was called, the store      *)
(* writes the handler issued (tried) and the rows it inserted (wrote).     *)
(***************************************************************************)
\* The fields each handler destructures from req.body; an absent field is
\* undefined
VerifyBody(attestationId, proof, publicSignals, userContextData) ==
    [attestationId |-> attestationId, proof |-> proof,
     publicSignals |-> publicSignals, userContextData |-> userContextData]

SelfBody(cosmosAddress, uuid) == [cosmosAddress |-> cosmosAddress, uuid |-> uuid]

ZkBody(proofs, queryResult, result, scope, uniqueIdentifier, cosmosAddress) ==
    [proofs |-> proofs, queryResult |-> queryResult, result |-> result,
     scope |-> scope, uniqueIdentifier |-> uniqueIdentifier,
     cosmosAddress |-> cosmosAddress]

\* new Date(x): an invalid date for undefined or unparseable text
NoDate == [kind |-> "missing", t |-> 0]
BadDate == [kind |-> "garbage", t |-> 0]
DateAt(d) == [kind |-> "date", t |-> d]
NewDate(raw) == [valid |-> raw.kind = "date", t |-> raw.t]

\* The verifier call: not answered yet, rejected (threw), or resolved
NoVres == [threw |-> FALSE]
Threw == [threw |-> TRUE]

NoResp == [code |-> 0, status |-> ""]

Idle ==
    [pc |-> "idle", ep |-> "", body |-> <<>>, vres |-> NoVres,
     resp |-> NoResp, called |-> FALSE, tried |-> <<>>, wrote |-> <<>>]

\* res.status(code).json({status, ...})
Reply(code, status) == [code |-> code, status |-> status]

Init ==
    /\ variant \in {"legacy", "server", "combined"}
    /\ verifierReady \in BOOLEAN
    /\ storeHealthy \in BOOLEAN
    /\ concurrency \in 1..MaxConc
    /\ zkpass = <<>>
    /\ selfcheck = <<>>
    /\ req = [i \in Slots |-> Idle]
    /\ served = 0
    /\ sig = SigIdle

\* A request can arrive on a free slot; the process handles at most
\* `concurrency` requests at a time.
CanAccept(i) ==
    /\ i <= concurrency
    /\ req[i].pc \in {"idle", "done"}
    /\ served < MaxReqs

Finish(r, resp) == [r EXCEPT !.pc = "done", !.resp = resp]

(***************************************************************************)
(* Inputs.  A process that handles one request at a time is driven with    *)
(* the wide input sets; under concurrent handling the inputs are the       *)
(* narrow sets that keep the interleavings enumerable.                     *)
(***************************************************************************)
Wide == concurrency = 1

Maybe(S) == {JUndef} \cup S

VerifyBodies ==
    IF Wide
    THEN {VerifyBody(a, p, g, c) :
            a \in Maybe({JNum(1)}), p \in Maybe({JStr(P1)}),
            g \in Maybe({JStr(One)}), c \in Maybe({JStr(One)})}
    ELSE {VerifyBody(JNum(1), p, JStr(One), JStr(One)) :
            p \in {JUndef, JStr(P1)}}

\* discloseOutput.expiryDate in days from now, discloseOutput.issuingState
Disclosures ==
    IF Wide
    THEN {<<DateAt(400), "USA">>, <<DateAt(30), "FRA">>, <<DateAt(365), "CHN">>,
          <<DateAt(-10), "USA">>, <<NoDate, "USA">>, <<BadDate, "FRA">>}
    ELSE {<<DateAt(400), "USA">>}

\* userData.userIdentifier, userData.userDefinedData (hex of the address)
UserDatas ==
    IF Wide
    THEN {<<JStr(U1), JStr(HexEncode(TwilightAddr))>>,
          <<JStr(U2), JStr(HexEncode(TwilightAddr))>>,
          <<JStr(U1), JStr(HexEncode(CosmosAddr))>>,
          <<JStr(U1), JUndef>>}
    ELSE {<<JStr(U1), JStr(HexEncode(TwilightAddr))>>,
          <<JStr(U1), JStr(HexEncode(CosmosAddr))>>}

\* What selfBackendVerifier.verify can do: reject, or resolve to a result
\* with isValidDetails.isValid false or true; a rejected proof still carries
\* its disclosed data
SelfVerifierResults ==
    {Threw,
     [threw |-> FALSE, isValid |-> FALSE, expiryDate |-> DateAt(400), issuingState |-> "USA",
      userIdentifier |-> JStr(U1), userDefinedData |-> JStr(HexEncode(TwilightAddr))]}
    \cup {[threw |-> FALSE, isValid |-> TRUE, expiryDate |-> d[1], issuingState |-> d[2],
           userIdentifier |-> u[1], userDefinedData |-> u[2]] :
            d \in Disclosures, u \in UserDatas}

(***************************************************************************)
(* POST /api/verify                                                        *)
(***************************************************************************)
\* A request-shape check that forgets userContextData
VerifyMissingForgetsContext(b) ==
    \/ ~Truthy(b.proof)
    \/ ~Truthy(b.publicSignals)
    \/ ~Truthy(b.attestationId)

\* !proof || !publicSignals || !attestationId || !userContextData
VerifyMissing(b) ==
    \/ ~Truthy(b.proof)
    \/ ~Truthy(b.publicSignals)
    \/ ~Truthy(b.attestationId)
    \/ ~Truthy(b.userContextData)

\* A handler that calls the verifier without checking the request's shape
VerifyArriveUnchecked(r, b) ==
    LET q == [Idle EXCEPT !.ep = "verify", !.body = b]
    IN  IF ~verifierReady THEN Finish(q, Reply(500, "error"))
        ELSE [q EXCEPT !.pc = "verifying", !.called = TRUE]

\* The handler up to its first await: the verifier-initialised check, the
\* request-shape check, then the call of selfBackendVerifier.verify.
VerifyArrive(r, b) ==
    LET q == [Idle EXCEPT !.ep = "verify", !.body = b]
    IN  IF ~verifierReady THEN Finish(q, Reply(500, "error"))
        ELSE IF VerifyMissing(b)
             THEN Finish(q, Reply(400, IF variant = "legacy" THEN "" ELSE "error"))
        ELSE [q EXCEPT !.pc = "verifying", !.called = TRUE]

VerifyStart(i) ==
    /\ CanAccept(i)
    /\ \E b \in VerifyBodies : req' = [req EXCEPT ![i] = VerifyArrive(req[i], b)]
    /\ served' = served + 1
    /\ UNCHANGED <<sig, variant, verifierReady, storeHealthy, concurrency, zkpass, selfcheck>>

YearDays == 365

\* An expiry predicate that also accepts a date exactly one year from now
isExpiryValidInclusive(expiryDate) == expiryDate.valid /\ expiryDate.t >= 0 + YearDays

\* expiryDate > oneYearFromNow, now being day 0; false for an invalid date
isExpiryValid(expiryDate) == expiryDate.valid /\ expiryDate.t > 0 + YearDays

allowedCountries == {"CHN", "IDN", "MYS", "USA"}

isCountryAllowed(issuingCountry) == issuingCountry \in allowedCountries

\* The success envelope of /api/verify in each variant
VerifySuccess(v) ==
    CASE variant = "combined" ->
            [code |-> 200, status |-> "success", result |-> JBool(TRUE),
             details |-> JBool(v.isValid)]
      [] variant = "server" ->
            [code |-> 200, status |-> "success",
             userIdentifier |-> v.userIdentifier,
             hasOneYearValidity |-> JBool(isExpiryValid(NewDate(v.expiryDate))),
             isCountryAllowed |-> JBool(isCountryAllowed(v.issuingState))]
      [] variant = "legacy" ->
            [code |-> 200, status |-> "success", result |-> JBool(TRUE)]

\* A failure envelope sent with status 400 by every variant
VerifyRejectedUniform(v) ==
    [code |-> 400, status |-> "error",
     result |-> JBool(FALSE), details |-> JBool(v.isValid)]

\* The failure envelope for a proof the verifier reports invalid
VerifyRejected(v) ==
    [code |-> IF variant = "legacy" THEN 500 ELSE 400, status |-> "error",
     result |-> JBool(FALSE), details |-> JBool(v.isValid)]

\* A continuation that does not branch on isValidDetails.isValid
VerifyResumeIgnoresValidity(r, v) ==
    LET q == [r EXCEPT !.vres = v]
    IN  IF v.threw THEN Finish(q, Reply(500, "error"))
        ELSE IF variant # "combined" THEN Finish(q, VerifySuccess(v))
        ELSE [q EXCEPT !.pc = "auditWrite", !.tried = Append(@, "selfcheck")]

\* The continuation after the verifier call, up to the next await.
VerifyResume(r, v) ==
    LET q == [r EXCEPT !.vres = v]
    IN  IF v.threw THEN Finish(q, Reply(500, "error"))
        ELSE IF ~v.isValid THEN Finish(q, VerifyRejected(v))
        ELSE IF variant = "legacy" THEN Finish(q, VerifySuccess(v))
        \* expiryDate.toISOString() in the log call throws on an invalid date
        ELSE IF ~NewDate(v.expiryDate).valid THEN Finish(q, Reply(500, "error"))
        \* server.mjs does not import saveSelfCheck: the call throws inside
        \* the inner try and the handler goes on to the response
        ELSE IF variant = "server" THEN Finish(q, VerifySuccess(v))
        ELSE [q EXCEPT !.pc = "auditWrite", !.tried = Append(@, "selfcheck")]

VerifyReturn(i) ==
    /\ req[i].pc = "verifying"
    /\ \E v \in SelfVerifierResults : req' = [req EXCEPT ![i] = VerifyResume(req[i], v)]
    /\ UNCHANGED <<sig, variant, verifierReady, storeHealthy, concurrency, zkpass, selfcheck, served>>

\* Buffer.from(userDefinedData, "hex").toString("utf8"); Buffer.from throws
\* a TypeError when its argument is undefined
DecodeAddress(userDefinedData) ==
    IF userDefinedData.t # "str"
    THEN [threw |-> TRUE, s |-> <<>>]
    ELSE [threw |-> FALSE, s |-> Utf8Text(HexBytes(userDefinedData.s))]

\* A continuation whose audit write has a try block of its own, so that a
\* failed audit write does not stop the record write
AuditResumeOwnTry(r, ok, idx) ==
    LET a == DecodeAddress(r.vres.userDefinedData)
        q == IF ok THEN [r EXCEPT !.wrote = Append(@, [table |-> "selfcheck", idx |-> idx])]
             ELSE r
    IN  IF a.threw THEN Finish(q, VerifySuccess(r.vres))
        ELSE IF ~StartsWith(a.s, ChainPrefix) THEN Finish(q, VerifySuccess(r.vres))
        ELSE [q EXCEPT !.pc = "recordWrite", !.tried = Append(@, "zkpass")]

\* A continuation that sends every decoded address on to the record write
AuditResumeAnyAddress(r, ok, idx) ==
    LET a == DecodeAddress(r.vres.userDefinedData)
        q == IF ok THEN [r EXCEPT !.wrote = Append(@, [table |-> "selfcheck", idx |-> idx])]
             ELSE r
    IN  IF ~ok THEN Finish(q, VerifySuccess(r.vres))
        ELSE IF a.threw THEN Finish(q, VerifySuccess(r.vres))
        ELSE [q EXCEPT !.pc = "recordWrite", !.tried = Append(@, "zkpass")]

\* After await saveSelfCheck: decode and check the address, then call
\* saveVerification, or fall into the inner catch and respond.
AuditResume(r, ok, idx) ==
    LET a == DecodeAddress(r.vres.userDefinedData)
        q == IF ok THEN [r EXCEPT !.wrote = Append(@, [table |-> "selfcheck", idx |-> idx])]
             ELSE r
    IN  IF ~ok THEN Finish(q, VerifySuccess(r.vres))
        ELSE IF a.threw THEN Finish(q, VerifySuccess(r.vres))
        ELSE IF ~StartsWith(a.s, ChainPrefix) THEN Finish(q, VerifySuccess(r.vres))
        ELSE [q EXCEPT !.pc = "recordWrite", !.tried = Append(@, "zkpass")]

AuditReturn(i) ==
    /\ req[i].pc = "auditWrite"
    /\ \E down \in StoreDown :
         LET w == saveSelfCheck(selfcheck, req[i].vres.userIdentifier, req[i].body.proof, down)
         IN  /\ selfcheck' = w.table
             /\ req' = [req EXCEPT ![i] = AuditResume(req[i], w.ok, Len(w.table))]
    /\ UNCHANGED <<sig, variant, verifierReady, storeHealthy, concurrency, zkpass, served>>

\* After await saveVerification(userIdentifier, cosmosAddress, "self")
RecordResume(r, ok, idx) ==
    LET q == IF ok THEN [r EXCEPT !.wrote = Append(@, [table |-> "zkpass", idx |-> idx])]
             ELSE r
    IN  Finish(q, VerifySuccess(r.vres))

RecordReturn(i) ==
    /\ req[i].pc = "recordWrite"
    /\ \E down \in StoreDown :
         LET w == saveVerification(zkpass, req[i].vres.userIdentifier,
                                   JStr(DecodeAddress(req[i].vres.userDefinedData).s),
                                   JStr(ProviderSelf), down)
         IN  /\ zkpass' = w.table
             /\ req' = [req EXCEPT ![i] = RecordResume(req[i], w.ok, Len(w.table))]
    /\ UNCHANGED <<sig, variant, verifierReady, storeHealthy, concurrency, selfcheck, served>>

(***************************************************************************)
(* POST /api/verify/self                                                   *)
(***************************************************************************)
SelfBodies ==
    IF Wide
    THEN {SelfBody(a, u) :
            a \in Maybe({JStr(<<>>), JStr(TwilightAddr), JStr(CosmosAddr)}),
            u \in Maybe({JStr(U1), JStr(U2)})}
    ELSE {SelfBody(JStr(CosmosAddr), JStr(U1))}

\* !cosmosAddress || !uuid
SelfMissing(b) == ~Truthy(b.cosmosAddress) \/ ~Truthy(b.uuid)

\* The handler up to await checkAttestationExists(uuid)
SelfArrive(r, b) ==
    LET q == [Idle EXCEPT !.ep = "self", !.body = b]
    IN  IF SelfMissing(b) THEN Finish(q, Reply(400, "error"))
        ELSE [q EXCEPT !.pc = "existsCheck"]

SelfStart(i) ==
    /\ CanAccept(i)
    /\ variant # "legacy"
    /\ \E b \in SelfBodies : req' = [req EXCEPT ![i] = SelfArrive(req[i], b)]
    /\ served' = served + 1
    /\ UNCHANGED <<sig, variant, verifierReady, storeHealthy, concurrency, zkpass, selfcheck>>

\* A handler that binds a subject once: when the zkpass table already holds
\* a row for uuid the request is refused
SelfExistsResumeOnce(r, c) ==
    IF ~c.ok THEN Finish(r, Reply(500, "error"))
    ELSE IF ~c.exists
         THEN Finish(r, IF variant = "server" THEN Reply(500, "error")
                        ELSE Reply(404, "error"))
    ELSE IF \E k \in 1..Len(zkpass) : zkpass[k].identifier = PgText(r.body.uuid).s
         THEN Finish(r, Reply(409, "error"))
    ELSE [r EXCEPT !.pc = "selfWrite", !.tried = Append(@, "zkpass")]

\* A handler that goes on to the insert whatever the existence check found
SelfExistsResumeUnchecked(r, c) ==
    IF ~c.ok THEN Finish(r, Reply(500, "error"))
    ELSE [r EXCEPT !.pc = "selfWrite", !.tried = Append(@, "zkpass")]

\* After the existence check: a store error goes to the outer catch; a
\* missing row is answered 404.  server.mjs builds that answer from the
\* undeclared name attestationId, which throws into the outer catch.
SelfExistsResume(r, c) ==
    IF ~c.ok THEN Finish(r, Reply(500, "error"))
    ELSE IF ~c.exists
         THEN Finish(r, IF variant = "server" THEN Reply(500, "error")
                        ELSE Reply(404, "error"))
    ELSE [r EXCEPT !.pc = "selfWrite", !.tried = Append(@, "zkpass")]

SelfExistsReturn(i) ==
    /\ req[i].pc = "existsCheck"
    /\ \E down \in StoreDown :
         req' = [req EXCEPT ![i] =
                    SelfExistsResume(req[i],
                        checkAttestationExists(selfcheck, req[i].body.uuid, down))]
    /\ UNCHANGED <<sig, variant, verifierReady, storeHealthy, concurrency, zkpass, selfcheck, served>>

\* A continuation that treats the insert as best effort: a store error is
\* swallowed and the answer is still the success envelope
SelfSaveResumeBestEffort(r, w) ==
    IF ~w.ok THEN Finish(r, [code |-> 200, status |-> "success", data |-> JUndef])
    ELSE Finish([r EXCEPT !.wrote = Append(@, [table |-> "zkpass", idx |-> Len(w.table)])],
                [code |-> 200, status |-> "success", data |-> w.table[Len(w.table)]])

\* After await saveVerification(uuid, cosmosAddress, 'self'): the saved row
\* is returned in the success envelope; a store error is answered 500.
SelfSaveResume(r, w) ==
    IF ~w.ok THEN Finish(r, Reply(500, "error"))
    ELSE Finish([r EXCEPT !.wrote = Append(@, [table |-> "zkpass", idx |-> Len(w.table)])],
                [code |-> 200, status |-> "success", data |-> w.table[Len(w.table)]])

SelfSaveReturn(i) ==
    /\ req[i].pc = "selfWrite"
    /\ \E down \in StoreDown :
         LET w == saveVerification(zkpass, req[i].body.uuid, req[i].body.cosmosAddress,
                                   JStr(ProviderSelf), down)
         IN  /\ zkpass' = w.table
             /\ req' = [req EXCEPT ![i] = SelfSaveResume(req[i], w)]
    /\ UNCHANGED <<sig, variant, verifierReady, storeHealthy, concurrency, selfcheck, served>>

(***************************************************************************)
(* POST /api/verify/zkpass                                                 *)
(***************************************************************************)
ZkBodies ==
    IF Wide
    THEN {ZkBody(p, q[1], q[2], c, JUndef, JUndef) :
            p \in Maybe({JStr(One)}), c \in Maybe({JStr(One)}),
            q \in {<<JStr(One), JUndef>>, <<JUndef, JStr(One)>>, <<JUndef, JUndef>>,
                   <<JStr(<<>>), JStr(One)>>}}
         \cup
         {ZkBody(JStr(One), JStr(One), JUndef, JStr(One), u, a) :
            u \in {JStr(U1), JStr(U2), JNum(1), JArr(<<U1>>)},
            a \in Maybe({JStr(TwilightAddr)})}
    ELSE {ZkBody(JStr(One), JStr(One), JUndef, JStr(One), JStr(U1), JStr(TwilightAddr))}

\* What zk.verify can do: reject, or resolve to {verified, uniqueIdentifier}
ZkVerifierResults ==
    IF Wide
    THEN {Threw}
         \cup {[threw |-> FALSE, verified |-> JBool(v), uniqueIdentifier |-> u] :
                 v \in BOOLEAN, u \in {JStr(U1), JStr(One), JUndef}}
    ELSE {Threw}
         \cup {[threw |-> FALSE, verified |-> JBool(v), uniqueIdentifier |-> JStr(U1)] :
                 v \in BOOLEAN}

\* const qr = queryResult ?? result;  !proofs || !qr || !scope
ZkMissing(b) ==
    \/ ~Truthy(b.proofs)
    \/ ~Truthy(Coalesce(b.queryResult, b.result))
    \/ ~Truthy(b.scope)

\* The handler up to await zk.verify(...).  The 400 answer has no status.
ZkArrive(r, b) ==
    LET q == [Idle EXCEPT !.ep = "zkpass", !.body = b]
    IN  IF ZkMissing(b) THEN Finish(q, Reply(400, ""))
        ELSE [q EXCEPT !.pc = "zkVerifying", !.called = TRUE]

ZkStart(i) ==
    /\ CanAccept(i)
    /\ variant # "legacy"
    /\ \E b \in ZkBodies : req' = [req EXCEPT ![i] = ZkArrive(req[i], b)]
    /\ served' = served + 1
    /\ UNCHANGED <<sig, variant, verifierReady, storeHealthy, concurrency, zkpass, selfcheck>>

\* serverUID == clientUID && verified == true
ZkGate(clientUID, serverUID, verified) ==
    LooseEq(serverUID, clientUID) /\ LooseEq(verified, JBool(TRUE))

\* match: clientUID ? clientUID === serverUID : null
ZkMatch(clientUID, serverUID) ==
    IF Truthy(clientUID) THEN JBool(StrictEq(clientUID, serverUID)) ELSE JNull

\* The response after the gate.  server.mjs reads the undeclared name
\* address while building it, which throws into the outer catch.
ZkReply(r) ==
    IF variant = "server" THEN Reply(500, "")
    ELSE [code |-> 200,
          status |-> IF Truthy(r.vres.verified) THEN "success" ELSE "error",
          verified |-> r.vres.verified,
          clientUID |-> r.body.uniqueIdentifier,
          serverUID |-> r.vres.uniqueIdentifier,
          match |-> ZkMatch(r.body.uniqueIdentifier, r.vres.uniqueIdentifier),
          address |-> Coalesce(r.body.cosmosAddress, JNull)]

\* A continuation that catches the verifier's rejection and answers as for
\* an unverified proof
ZkResumeCatchesVerifier(r, v) ==
    LET q == [r EXCEPT !.vres = v]
    IN  IF v.threw THEN Finish(q, Reply(200, "error"))
        ELSE IF ZkGate(r.body.uniqueIdentifier, v.uniqueIdentifier, v.verified)
             THEN [q EXCEPT !.pc = "zkWrite", !.tried = Append(@, "zkpass")]
        ELSE Finish(q, ZkReply(q))

\* After await zk.verify: a rejection is answered 500; the gate decides
\* whether saveVerification is called before the response.
ZkResume(r, v) ==
    LET q == [r EXCEPT !.vres = v]
    IN  IF v.threw THEN Finish(q, Reply(500, ""))
        ELSE IF ZkGate(r.body.uniqueIdentifier, v.uniqueIdentifier, v.verified)
             THEN [q EXCEPT !.pc = "zkWrite", !.tried = Append(@, "zkpass")]
        ELSE Finish(q, ZkReply(q))

ZkReturn(i) ==
    /\ req[i].pc = "zkVerifying"
    /\ \E v \in ZkVerifierResults : req' = [req EXCEPT ![i] = ZkResume(req[i], v)]
    /\ UNCHANGED <<sig, variant, verifierReady, storeHealthy, concurrency, zkpass, selfcheck, served>>

\* The provider argument: server.mjs calls saveVerification with two
\* arguments, so provider is undefined there.
ZkProvider == IF variant = "server" THEN JUndef ELSE JStr(ProviderZkpass)

\* After await saveVerification(clientUID || serverUID, cosmosAddress ?? null, ...):
\* a store error is caught and logged, the response is the same.
ZkSaveResume(r, w) ==
    Finish(IF w.ok THEN [r EXCEPT !.wrote = Append(@, [table |-> "zkpass", idx |-> Len(w.table)])]
           ELSE r,
           ZkReply(r))

ZkSaveReturn(i) ==
    /\ req[i].pc = "zkWrite"
    /\ \E down \in StoreDown :
         LET w == saveVerification(zkpass,
                                   OrElse(req[i].body.uniqueIdentifier, req[i].vres.uniqueIdentifier),
                                   Coalesce(req[i].body.cosmosAddress, JNull),
                                   ZkProvider, down)
         IN  /\ zkpass' = w.table
             /\ req' = [req EXCEPT ![i] = ZkSaveResume(req[i], w)]
    /\ UNCHANGED <<sig, variant, verifierReady, storeHealthy, concurrency, selfcheck, served>>

Next ==
    \E i \in Slots :
        \/ VerifyStart(i)
        \/ VerifyReturn(i)
        \/ AuditReturn(i)
        \/ RecordReturn(i)
        \/ SelfStart(i)
        \/ SelfExistsReturn(i)
        \/ SelfSaveReturn(i)
        \/ ZkStart(i)
        \/ ZkReturn(i)
        \/ ZkSaveReturn(i)

Spec == Init /\ [][Next]_vars

(***************************************************************************)
(* Calls of verifySignature, on a process that serves no request.          *)
(***************************************************************************)
SigAddresses == {JStr(TwilightAddr), JStr(<<49, 97>>), JNum(1)}

SigMessages == {JStr(<<104, 105>>), JStr(<<233>>), JUndef}

\* Signatures of 64, 65, 66 and 63 bytes; texts assertBase64 refuses (length
\* not a multiple of 4, three '=', a character outside the alphabet, empty);
\* values that are not strings
SigSignatures ==
    {JStr(B64Text(88, 2)), JStr(B64Text(88, 1)), JStr(B64Text(88, 0)), JStr(B64Text(84, 0)),
     JStr(B64Text(87, 0)), JStr(B64Text(88, 3)), JStr(Rep(42, 88)), JStr(<<>>),
     JUndef, JNum(1)}

\* Public keys of 33, 32 and 34 bytes; a refused text; an absent value
SigPubkeys ==
    {JStr(B64Text(44, 0)), JStr(B64Text(44, 1)), JStr(B64Text(48, 2)),
     JStr(Rep(42, 44)), JUndef}

AdrOutcomes == {"true", "false", "throws"}

\* One call of verifySignature
SigCall ==
    /\ \E a \in SigAddresses, s \in SigSignatures, p \in SigPubkeys,
          m \in SigMessages, adr \in AdrOutcomes :
         sig' = [pc |-> "returned", bech32Address |-> a, signatureB64 |-> s,
                 pubkeyB64 |-> p, messageString |-> m, adr |-> adr,
                 result |-> verifySignature(a, s, p, m, adr)]
    /\ UNCHANGED <<variant, verifierReady, storeHealthy, concurrency,
                   zkpass, selfcheck, req, served>>

SigInit ==
    /\ variant = "server"
    /\ verifierReady = TRUE
    /\ storeHealthy = TRUE
    /\ concurrency = 1
    /\ zkpass = <<>>
    /\ selfcheck = <<>>
    /\ req = [i \in Slots |-> Idle]
    /\ served = 0
    /\ sig = SigIdle

SigNext == SigCall

SigSpec == SigInit /\ [][SigNext]_vars

(***************************************************************************)
(* Properties.                                                             *)
(***************************************************************************)
Present(v) == v # JUndef

InCombined == variant = "combined"

\* A required field of the endpoint is absent from the request body
RequiredFieldAbsent(r) ==
    CASE r.ep = "verify" ->
            \/ ~Present(r.body.attestationId)
            \/ ~Present(r.body.proof)
            \/ ~Present(r.body.publicSignals)
            \/ ~Present(r.body.userContextData)
      [] r.ep = "self" ->
            ~Present(r.body.cosmosAddress) \/ ~Present(r.body.uuid)
      [] r.ep = "zkpass" ->
            \/ ~Present(r.body.proofs)
            \/ ~Present(r.body.queryResult) /\ ~Present(r.body.result)
            \/ ~Present(r.body.scope)
      [] OTHER -> FALSE

\* C1: in the combined server, every step a request with an absent required
\* field takes (on any of the three POST endpoints) ends the request without
\* calling the external verifier and leaves the zkpass and selfcheck tables
\* as they were.
C1_MissingFieldNoEffect ==
    [][InCombined =>
        \A i \in Slots :
            (req'[i] # req[i] /\ RequiredFieldAbsent(req'[i])) =>
                /\ req'[i].pc = "done"
                /\ ~req'[i].called
                /\ req'[i].tried = <<>>
                /\ zkpass' = zkpass
                /\ selfcheck' = selfcheck]_vars

\* C1 witness: with rows in both tables, a /api/verify request that lacks
\* only userContextData has been answered 400 without reaching the verifier.
C1_Witness ==
    /\ InCombined
    /\ Len(zkpass) > 0
    /\ Len(selfcheck) > 0
    /\ \E i \in Slots :
         /\ req[i].ep = "verify"
         /\ req[i].pc = "done"
         /\ ~Present(req[i].body.userContextData)
         /\ Present(req[i].body.proof)
         /\ Present(req[i].body.publicSignals)
         /\ Present(req[i].body.attestationId)
         /\ req[i].resp.code = 400
         /\ ~req[i].called

\* The verifier has answered request r, and its answer is "not valid"
VerifierSaidInvalid(r) ==
    \/ /\ r.ep = "verify"
       /\ r.called
       /\ r.pc # "verifying"
       /\ ~r.vres.threw
       /\ ~r.vres.isValid
    \/ /\ r.ep = "zkpass"
       /\ r.called
       /\ r.pc # "zkVerifying"
       /\ ~r.vres.threw
       /\ r.vres.verified = JBool(FALSE)

\* C2: a /api/verify request whose verifier result has isValid = false, and
\* a /api/verify/zkpass request whose verifier result has verified = false,
\* is finished and has inserted no row into zkpass nor selfcheck.
C2_InvalidWritesNothing ==
    \A i \in Slots :
        VerifierSaidInvalid(req[i]) =>
            /\ req[i].pc = "done"
            /\ req[i].wrote = <<>>

\* C2 witness: a zkpass request with matching identifiers was answered
\* verified = false, and a /api/verify request was answered invalid.
C2_Witness ==
    \E i, j \in Slots :
        /\ req[i].ep = "zkpass"
        /\ VerifierSaidInvalid(req[i])
        /\ req[i].body.uniqueIdentifier = req[i].vres.uniqueIdentifier
        /\ Present(req[i].body.uniqueIdentifier)
        /\ req[i].resp.code = 200
        /\ req[j].ep = "verify"
        /\ VerifierSaidInvalid(req[j])
        /\ req[j].resp.code = 400

\* The rows request r inserted into the zkpass table
RecordsWrittenBy(r) ==
    [k \in {n \in 1..Len(r.wrote) : r.wrote[n].table = "zkpass"} |-> zkpass[r.wrote[k].idx]]

\* The verifier has answered request r, and its answer is "valid"
VerifierSaidValid(r) ==
    \/ /\ r.ep = "verify"
       /\ r.called
       /\ r.pc # "verifying"
       /\ ~r.vres.threw
       /\ r.vres.isValid
    \/ /\ r.ep = "zkpass"
       /\ r.called
       /\ r.pc # "zkVerifying"
       /\ ~r.vres.threw
       /\ r.vres.verified = JBool(TRUE)

\* The client identifier is absent or equals the server identifier
IdentifiersReconcile(r) ==
    \/ IsNullish(r.body.uniqueIdentifier)
    \/ r.body.uniqueIdentifier = r.vres.uniqueIdentifier

ExactlyOneRecord(r, provider) ==
    LET rows == RecordsWrittenBy(r)
    IN  /\ Cardinality(DOMAIN rows) = 1
        /\ \A k \in DOMAIN rows : rows[k].provider = provider

\* C3 (as claimed): with the store answering, every finished /api/verify
\* request of the combined server whose proof is valid, and every finished
\* /api/verify/zkpass request (server.mjs or combined) that is verified with
\* a client identifier absent or equal to the server's, has inserted exactly
\* one zkpass row, tagged 'self' and 'zkpass' respectively.
C3_ExactlyOneRecordPerSuccess ==
    storeHealthy =>
        \A i \in Slots :
            LET r == req[i]
            IN  /\ (InCombined /\ r.pc = "done" /\ r.ep = "verify" /\ VerifierSaidValid(r))
                       => ExactlyOneRecord(r, ProviderSelf)
                /\ (variant # "legacy" /\ r.pc = "done" /\ r.ep = "zkpass"
                        /\ VerifierSaidValid(r) /\ IdentifiersReconcile(r))
                       => ExactlyOneRecord(r, ProviderZkpass)

\* Allow iff verified and (client identifier absent or equal to the server's)
ReconcilerAllows(r) ==
    /\ r.vres.verified = JBool(TRUE)
    /\ IdentifiersReconcile(r)

Tried(r, table) == \E k \in 1..Len(r.tried) : r.tried[k] = table

\* C4 (as claimed): in the combined server, once zk.verify has answered a
\* /api/verify/zkpass request, the handler calls saveVerification if and only
\* if verified is true and the client identifier is absent or exactly equal
\* to the server-derived one.
C4_GateIsReconcilerRule ==
    InCombined =>
        \A i \in Slots :
            LET r == req[i]
            IN  (r.ep = "zkpass" /\ r.called /\ r.pc # "zkVerifying" /\ ~r.vres.threw)
                    => (Tried(r, "zkpass") <=> ReconcilerAllows(r))

\* A selfcheck row whose attestationId is the text of identifier id exists
AuditRowExists(table, id) ==
    \E k \in 1..Len(table) : table[k].attestationId = id.s

NonEmptyText(v) == v.t = "str" /\ v.s # <<>>

\* C5 (as claimed): in server.mjs and in the combined server, with the store
\* answering, a finished /api/verify/self request with non-empty
\* cosmosAddress and uuid for which no selfcheck row exists was answered 404
\* and inserted nothing.
C5_UnknownUuidIs404 ==
    (storeHealthy /\ variant # "legacy") =>
        \A i \in Slots :
            LET r == req[i]
            IN  (r.ep = "self" /\ r.pc = "done"
                    /\ NonEmptyText(r.body.cosmosAddress) /\ NonEmptyText(r.body.uuid)
                    /\ ~AuditRowExists(selfcheck, r.body.uuid))
                    => (r.resp.code = 404 /\ r.wrote = <<>>)

\* Request i takes a step of /api/verify/self after the existence check was
\* issued, at a moment when a selfcheck row for its uuid exists
SelfStepWithAuditRow(i) ==
    /\ req[i].ep = "self"
    /\ req[i].pc \in {"existsCheck", "selfWrite"}
    /\ req'[i] # req[i]
    /\ AuditRowExists(selfcheck, req[i].body.uuid)

\* The request goes on to the insert, or finishes with the success envelope
\* carrying the one row (uuid, cosmosAddress, 'self') it appended to zkpass
SelfBindsAddress(i) ==
    \/ /\ req[i].pc = "existsCheck"
       /\ req'[i].pc = "selfWrite"
       /\ zkpass' = zkpass
    \/ /\ req[i].pc = "selfWrite"
       /\ req'[i].pc = "done"
       /\ req'[i].resp.code = 200
       /\ req'[i].resp.status = "success"
       /\ req'[i].resp.data =
            [address |-> req[i].body.cosmosAddress.s,
             identifier |-> req[i].body.uuid.s,
             provider |-> ProviderSelf]
       /\ zkpass' = Append(zkpass, req'[i].resp.data)

SuccessEnvelope(resp) ==
    /\ resp.code = 200
    /\ resp.status = "success"

\* C7 (as claimed): in server.mjs and in the combined server, with the store
\* answering, once /api/verify has answered success for a valid proof with
\* userIdentifier X, the selfcheck table holds a row for X with the raw proof
\* (the row that authorises a later /api/verify/self with uuid = X).
C7_SuccessLeavesAuditRow ==
    (storeHealthy /\ variant # "legacy") =>
        \A i \in Slots :
            LET r == req[i]
            IN  (r.ep = "verify" /\ r.pc = "done" /\ VerifierSaidValid(r)
                    /\ SuccessEnvelope(r.resp))
                    => \E k \in 1..Len(selfcheck) :
                          /\ selfcheck[k].attestationId = r.vres.userIdentifier.s
                          /\ selfcheck[k].proof = r.body.proof.s

Wrote(r, table) == \E k \in 1..Len(r.wrote) : r.wrote[k].table = table

\* C8: in a /api/verify request, the selfcheck insert happens only after the
\* verifier returned valid and while the request has inserted nothing yet,
\* and the zkpass insert happens only when the request's own selfcheck row is
\* already in the table.
C8_AuditBeforeRecord ==
    [][\A i \in Slots :
        (req[i].ep = "verify" /\ req'[i] # req[i]) =>
            /\ selfcheck' # selfcheck =>
                  /\ VerifierSaidValid(req[i])
                  /\ req[i].wrote = <<>>
                  /\ zkpass' = zkpass
            /\ zkpass' # zkpass =>
                  /\ selfcheck' = selfcheck
                  /\ Len(req[i].wrote) = 1
                  /\ req[i].wrote[1].table = "selfcheck"
                  /\ selfcheck[req[i].wrote[1].idx].attestationId
                        = req[i].vres.userIdentifier.s]_vars

\* C8 witness: a /api/verify request has inserted its audit row and then its
\* record, in that order.
C8_Witness ==
    \E i \in Slots :
        /\ req[i].ep = "verify"
        /\ req[i].pc = "done"
        /\ Len(req[i].wrote) = 2
        /\ req[i].wrote[1].table = "selfcheck"
        /\ req[i].wrote[2].table = "zkpass"
        /\ zkpass[req[i].wrote[2].idx].identifier = req[i].vres.userIdentifier.s

\* C9 (as claimed): in the combined server, every finished /api/verify
\* request whose verifier result is valid was answered with the success
\* envelope (200, status 'success', result true).
C9_ValidMeansSuccess ==
    InCombined =>
        \A i \in Slots :
            LET r == req[i]
            IN  (r.ep = "verify" /\ r.pc = "done" /\ VerifierSaidValid(r))
                    => (SuccessEnvelope(r.resp) /\ r.resp.result = JBool(TRUE))

\* C10 (as claimed): in the combined server, for every valid proof, whatever
\* expiryDate and issuingState the verifier disclosed, the handler has issued
\* the audit write and, once finished, has answered with the success envelope.
C10_PolicyChecksAdvisory ==
    InCombined =>
        \A i \in Slots :
            LET r == req[i]
            IN  (r.ep = "verify" /\ VerifierSaidValid(r))
                    => /\ Tried(r, "selfcheck")
                       /\ r.pc = "done" => SuccessEnvelope(r.resp)

\* The hex text decodes to an address that does not begin with "twilight"
DecodesOffChain(v) ==
    /\ v.t = "str"
    /\ LET a == Utf8Text(HexBytes(v.s))
       IN  Len(a) < Len(ChainPrefix) \/ SubSeq(a, 1, Len(ChainPrefix)) # ChainPrefix

\* C11: in the combined server, a /api/verify request with a valid proof
\* that entered the persistence block and whose decoded userDefinedData does
\* not start with 'twilight' is, once the audit write has returned, finished
\* with the 200 success envelope, has not called saveVerification nor
\* inserted a zkpass row, and the audit row it inserted is still in the
\* selfcheck table for its userIdentifier and proof.
C11_OffChainAddressSkipsRecord ==
    InCombined =>
        \A i \in Slots :
            LET r == req[i]
            IN  (r.ep = "verify" /\ VerifierSaidValid(r) /\ Tried(r, "selfcheck")
                    /\ r.pc # "auditWrite" /\ DecodesOffChain(r.vres.userDefinedData))
                    => /\ r.pc = "done"
                       /\ ~Tried(r, "zkpass")
                       /\ ~Wrote(r, "zkpass")
                       /\ SuccessEnvelope(r.resp)
                       /\ r.resp.result = JBool(TRUE)
                       /\ \A k \in 1..Len(r.wrote) :
                             selfcheck[r.wrote[k].idx] =
                                [attestationId |-> r.vres.userIdentifier.s,
                                 proof |-> r.body.proof.s]

\* C11 witness: such a request has stored its audit row and was answered
\* success while the zkpass table holds no row for its userIdentifier.
C11_Witness ==
    /\ InCombined
    /\ \E i \in Slots :
         /\ req[i].ep = "verify"
         /\ req[i].pc = "done"
         /\ VerifierSaidValid(req[i])
         /\ DecodesOffChain(req[i].vres.userDefinedData)
         /\ Wrote(req[i], "selfcheck")
         /\ SuccessEnvelope(req[i].resp)
         /\ \A k \in 1..Len(zkpass) : zkpass[k].identifier # req[i].vres.userIdentifier.s

\* zk.verify has answered request r with verified = true, and the client sent
\* a uniqueIdentifier that is not the server-derived one
VerifiedWithOtherIdentifier(r) ==
    /\ r.ep = "zkpass"
    /\ VerifierSaidValid(r)
    /\ Present(r.body.uniqueIdentifier)
    /\ r.body.uniqueIdentifier # r.vres.uniqueIdentifier

\* C12 (as claimed): in the combined server, a /api/verify/zkpass request
\* that zk.verify answered verified = true and whose client-supplied
\* uniqueIdentifier differs from the server-derived one is finished without
\* calling saveVerification, has inserted no row, and was answered HTTP 200
\* with status 'success', verified = true and match = false.
C12_MismatchSkipsRecord ==
    InCombined =>
        \A i \in Slots :
            LET r == req[i]
            IN  VerifiedWithOtherIdentifier(r)
                    => /\ r.pc = "done"
                       /\ ~Tried(r, "zkpass")
                       /\ r.wrote = <<>>
                       /\ SuccessEnvelope(r.resp)
                       /\ r.resp.verified = JBool(TRUE)
                       /\ r.resp.match = JBool(FALSE)

\* The envelope of /api/verify/zkpass as a function of the request body and
\* the verifier's result alone
ZkEnvelopeOf(r) ==
    [code |-> 200,
     status |-> IF Truthy(r.vres.verified) THEN "success" ELSE "error",
     verified |-> r.vres.verified,
     clientUID |-> r.body.uniqueIdentifier,
     serverUID |-> r.vres.uniqueIdentifier,
     match |-> IF Truthy(r.body.uniqueIdentifier)
               THEN JBool(r.body.uniqueIdentifier = r.vres.uniqueIdentifier)
               ELSE JNull,
     address |-> IF IsNullish(r.body.cosmosAddress) THEN JNull ELSE r.body.cosmosAddress]

\* C13 (as claimed): in server.mjs and in the combined server, every finished
\* /api/verify/zkpass request that passed validation and whose zk.verify call
\* returned was answered with the envelope {status, verified, clientUID,
\* serverUID, match, address} determined by the request and the verifier's
\* result, whether its record write was skipped, succeeded or failed.
C13_ZkEnvelopeAlways ==
    variant # "legacy" =>
        \A i \in Slots :
            LET r == req[i]
            IN  (r.ep = "zkpass" /\ r.pc = "done" /\ r.called /\ ~r.vres.threw)
                    => r.resp = ZkEnvelopeOf(r)

\* The zkpass gate let request r through to saveVerification with an
\* identifier to store, and the request carries no cosmosAddress
GatePassedWithoutAddress(r) ==
    /\ r.ep = "zkpass"
    /\ Tried(r, "zkpass")
    /\ r.pc = "done"
    /\ Truthy(OrElse(r.body.uniqueIdentifier, r.vres.uniqueIdentifier))
    /\ IsNullish(r.body.cosmosAddress)

\* C14 (as claimed): in the combined server, with the store answering, a
\* finished /api/verify/zkpass request that passed the gate and carried no
\* cosmosAddress has stored a zkpass row with the reconciled identifier
\* (the client's, else the server's), no wallet address and provider 'zkpass'.
C14_NullAddressRecordStored ==
    (InCombined /\ storeHealthy) =>
        \A i \in Slots :
            LET r == req[i]
            IN  GatePassedWithoutAddress(r)
                    => /\ Wrote(r, "zkpass")
                       /\ \A k \in 1..Len(r.wrote) :
                            /\ zkpass[r.wrote[k].idx].identifier =
                                  PgText(OrElse(r.body.uniqueIdentifier,
                                                r.vres.uniqueIdentifier)).s
                            /\ zkpass[r.wrote[k].idx].address = <<>>
                            /\ zkpass[r.wrote[k].idx].provider = ProviderZkpass

\* The (identifier, address, provider) arguments of the saveVerification
\* call that request r is waiting on
SaveArguments(r) ==
    CASE r.pc = "recordWrite" ->
            <<r.vres.userIdentifier,
              JStr(Utf8Text(HexBytes(r.vres.userDefinedData.s))),
              JStr(ProviderSelf)>>
      [] r.pc = "selfWrite" ->
            <<r.body.uuid, r.body.cosmosAddress, JStr(ProviderSelf)>>
      [] r.pc = "zkWrite" ->
            <<OrElse(r.body.uniqueIdentifier, r.vres.uniqueIdentifier),
              Coalesce(r.body.cosmosAddress, JNull),
              IF variant = "server" THEN JUndef ELSE JStr(ProviderZkpass)>>

\* The row a saveVerification call with arguments a asks the store to insert
RowOfArguments(a) ==
    [address |-> PgText(a[2]).s, identifier |-> PgText(a[1]).s, provider |-> PgText(a[3]).s]

\* How many rows of the table equal row
Copies(table, row) == Cardinality({k \in 1..Len(table) : table[k] = row})

\* C15: against a healthy store, every saveVerification call whose three
\* arguments are not NULL appends its row to the zkpass table, also when an
\* identical row is already stored: the number of copies of the row grows by
\* one, so two calls in sequence with identical arguments leave two rows.
C15_NoKeyNoMerge ==
    [][storeHealthy =>
        \A i \in Slots :
            (req[i].pc \in {"recordWrite", "selfWrite", "zkWrite"} /\ req'[i] # req[i]) =>
                LET a == SaveArguments(req[i])
                    row == RowOfArguments(a)
                IN  (\A n \in 1..3 : ~IsNullish(a[n])) =>
                        /\ zkpass' = Append(zkpass, row)
                        /\ Copies(zkpass', row) = Copies(zkpass, row) + 1]_vars

\* C15 witness: a process that handles its requests one after the other has
\* stored the same (identifier, address, provider) row twice.
C15_Witness ==
    /\ storeHealthy
    /\ concurrency = 1
    /\ \E j, k \in 1..Len(zkpass) : j < k /\ zkpass[j] = zkpass[k]

\* Requests i and j are /api/verify requests with valid proofs for the same
\* userIdentifier, both past the verifier call
SameSubjectInFlight(i, j) ==
    /\ i # j
    /\ req[i].ep = "verify"
    /\ req[j].ep = "verify"
    /\ VerifierSaidValid(req[i])
    /\ VerifierSaidValid(req[j])
    /\ req[i].vres.userIdentifier = req[j].vres.userIdentifier

\* C16: in the combined server with a healthy store, while two /api/verify
\* requests with valid proofs for the same userIdentifier are being handled,
\* the record write of either one appends its (identifier, address, 'self')
\* row and is recorded as written, whatever the other request has already
\* written: nothing locks the subject or drops the second write.
C16_ConcurrentWritesBothPersist ==
    [][(InCombined /\ storeHealthy) =>
        \A i, j \in Slots :
            (SameSubjectInFlight(i, j) /\ req[i].pc = "recordWrite" /\ req'[i] # req[i]) =>
                /\ zkpass' = Append(zkpass,
                        [address |-> Utf8Text(HexBytes(req[i].vres.userDefinedData.s)),
                         identifier |-> req[i].vres.userIdentifier.s,
                         provider |-> ProviderSelf])
                /\ Wrote(req'[i], "zkpass")
                /\ req'[j] = req[j]]_vars

\* C16 witness: two /api/verify requests for the same userIdentifier have
\* both finished, interleaved (i wrote its audit row first, j wrote its
\* record first), and the zkpass table holds a 'self' row of each for that
\* identifier.
C16_Witness ==
    \E i, j \in Slots :
        /\ SameSubjectInFlight(i, j)
        /\ req[i].pc = "done"
        /\ req[j].pc = "done"
        /\ Len(req[i].wrote) = 2
        /\ Len(req[j].wrote) = 2
        /\ req[i].wrote[1].idx < req[j].wrote[1].idx
        /\ req[j].wrote[2].idx < req[i].wrote[2].idx
        /\ zkpass[req[i].wrote[2].idx].identifier = req[i].vres.userIdentifier.s
        /\ zkpass[req[j].wrote[2].idx].identifier = req[i].vres.userIdentifier.s
        /\ zkpass[req[i].wrote[2].idx].provider = ProviderSelf
        /\ zkpass[req[j].wrote[2].idx].provider = ProviderSelf

\* Table `after` holds every row of `before` at the same position
Extends(before, after) ==
    /\ Len(before) <= Len(after)
    /\ \A k \in 1..Len(before) : after[k] = before[k]

\* C17: every step of the system, under any interleaving of requests to the
\* three endpoints, leaves each row of the zkpass and selfcheck tables in
\* place and unchanged; the tables only grow, by at most one row per step.
C17_TablesAppendOnly ==
    [][/\ Extends(zkpass, zkpass')
       /\ Extends(selfcheck, selfcheck')
       /\ Len(zkpass') + Len(selfcheck') <= Len(zkpass) + Len(selfcheck) + 1]_vars

\* C17 witness: after several requests the selfcheck table holds rows for
\* two subjects, and the zkpass table a 'self' row and a 'zkpass' row.
C17_Witness ==
    /\ \E j, k \in 1..Len(selfcheck) : selfcheck[j].attestationId # selfcheck[k].attestationId
    /\ \E j, k \in 1..Len(zkpass) :
         /\ zkpass[j].provider = ProviderSelf
         /\ zkpass[k].provider = ProviderZkpass

\* The external verifier call of request r threw or rejected
VerifierThrew(r) ==
    /\ r.ep \in {"verify", "zkpass"}
    /\ r.called
    /\ r.pc \notin {"verifying", "zkVerifying"}
    /\ r.vres.threw

\* C18: a /api/verify or /api/verify/zkpass request whose external verifier
\* call threw or rejected is finished, was answered HTTP 500, and has neither
\* issued a store write nor inserted a row into either table.
C18_VerifierErrorNoWrite ==
    \A i \in Slots :
        VerifierThrew(req[i]) =>
            /\ req[i].pc = "done"
            /\ req[i].resp.code = 500
            /\ req[i].tried = <<>>
            /\ req[i].wrote = <<>>

\* C18 witness: the combined server has answered 500 to a /api/verify request
\* and to a /api/verify/zkpass request whose verifier calls rejected.
C18_Witness ==
    /\ InCombined
    /\ \E i, j \in Slots :
         /\ req[i].ep = "verify"
         /\ VerifierThrew(req[i])
         /\ req[i].resp.code = 500
         /\ req[j].ep = "zkpass"
         /\ VerifierThrew(req[j])
         /\ req[j].resp.code = 500

\* C19 (as claimed): in the combined server, whether or not the verifier was
\* initialised at startup, a /api/verify request that lacks a required field
\* is finished on arrival and was answered HTTP 400.
C19_MissingFieldAlways400 ==
    InCombined =>
        \A i \in Slots :
            LET r == req[i]
            IN  (r.ep = "verify" /\ RequiredFieldAbsent(r))
                    => (r.pc = "done" /\ r.resp.code = 400)

\* C19 (amended): in every variant, a /api/verify request that lacks a
\* required field is finished on arrival without a verifier call or store
\* write; it was answered HTTP 400 when the verifier was initialised at
\* startup, and HTTP 500 when it was not.
C19_MissingField400WhenReady ==
    \A i \in Slots :
        LET r == req[i]
        IN  (r.ep = "verify" /\ RequiredFieldAbsent(r))
                => /\ r.pc = "done"
                   /\ ~r.called
                   /\ r.tried = <<>>
                   /\ r.resp.code = IF verifierReady THEN 400 ELSE 500

\* C19 witness: with the verifier initialised, the combined server has
\* answered 400 to a /api/verify request that lacks only its proof.
C19_Witness ==
    /\ InCombined
    /\ verifierReady
    /\ \E i \in Slots :
         /\ req[i].ep = "verify"
         /\ req[i].pc = "done"
         /\ ~Present(req[i].body.proof)
         /\ Present(req[i].body.attestationId)
         /\ Present(req[i].body.publicSignals)
         /\ Present(req[i].body.userContextData)
         /\ req[i].resp.code = 400

\* C20: in every variant, a /api/verify response has status 'success' only
\* if the verifier returned isValid = true; a request whose verifier result
\* is invalid was answered with the failure envelope (status 'error', result
\* false, details = the verifier's isValidDetails) and a non-2xx code: 500 in
\* the legacy server, 400 in server.mjs and the combined server.
C20_SuccessOnlyIfValid ==
    \A i \in Slots :
        LET r == req[i]
        IN  r.ep = "verify" =>
                /\ r.resp.status = "success" => VerifierSaidValid(r)
                /\ VerifierSaidInvalid(r) =>
                      /\ r.pc = "done"
                      /\ r.resp.status = "error"
                      /\ r.resp.result = JBool(FALSE)
                      /\ r.resp.details = JBool(r.vres.isValid)
                      /\ r.resp.code = IF variant = "legacy" THEN 500 ELSE 400

\* C20 witness: the legacy server has answered an invalid proof with the
\* failure envelope and HTTP 500.
C20_Witness ==
    /\ variant = "legacy"
    /\ \E i \in Slots :
         /\ req[i].ep = "verify"
         /\ VerifierSaidInvalid(req[i])
         /\ req[i].resp.code = 500
         /\ req[i].resp.status = "error"
         /\ req[i].resp.result = JBool(FALSE)

\* The text is well-formed base64 and decodes to n bytes
DecodesToBytes(v, n) ==
    /\ v.t = "str"
    /\ Len(v.s) % 4 = 0
    /\ MatchesB64Pattern(v.s)
    /\ Base64ByteLength(v.s) = n

\* C21: every call of verifySignature returns an object with a boolean ok
\* (nothing is thrown to the caller); ok is true only if both base64 inputs
\* are well formed, the public key decodes to 33 bytes, the signature to 64
\* bytes and the ADR-036 check returned true; and a 65-byte signature with a
\* 33-byte key, a string address and a printable ASCII message returns
\* ok = false with the signature-length error naming 65.
C21_VerifySignatureFailsClosed ==
    sig.pc = "returned" =>
        /\ sig.result.ok \in BOOLEAN
        /\ sig.result.ok =>
              /\ DecodesToBytes(sig.pubkeyB64, PubkeyBytes)
              /\ DecodesToBytes(sig.signatureB64, SignatureBytes)
              /\ sig.adr = "true"
        /\ (/\ sig.signatureB64 = JStr(B64Text(88, 1))
            /\ sig.pubkeyB64 = JStr(B64Text(44, 0))
            /\ sig.bech32Address.t = "str"
            /\ sig.messageString = JStr(<<104, 105>>))
              => sig.result = [ok |-> FALSE,
                               error |-> <<"signature must be 64 bytes", 65>>]

\* C21 witness: a call with a 65-byte signature and a 33-byte key, for which
\* the ADR-036 check would have answered true, returned ok = false.
C21_Witness ==
    /\ sig.pc = "returned"
    /\ DecodesToBytes(sig.signatureB64, SignatureBytes + 1)
    /\ DecodesToBytes(sig.pubkeyB64, PubkeyBytes)
    /\ sig.bech32Address = JStr(TwilightAddr)
    /\ sig.messageString.t = "str"
    /\ IsPrintableAscii(sig.messageString.s)
    /\ sig.adr = "true"
    /\ ~sig.result.ok

\* Request r is a /api/verify request of server.mjs answered with the
\* success envelope, which reports expiry.hasOneYearValidity
ReportsExpiry(r) ==
    /\ variant = "server"
    /\ r.ep = "verify"
    /\ r.pc = "done"
    /\ SuccessEnvelope(r.resp)

\* C22: the expiry predicate reported by /api/verify of server.mjs is true
\* exactly when the disclosed expiry date is strictly later than one year
\* from now: 400 days from now gives true, 30 days gives false, and exactly
\* one year from now gives false.
C22_ExpiryStrictlyAfterOneYear ==
    \A i \in Slots :
        LET r == req[i]
            days == r.vres.expiryDate.t
        IN  ReportsExpiry(r) =>
                /\ r.resp.hasOneYearValidity = JBool(days > YearDays)
                /\ days = 400 => r.resp.hasOneYearValidity = JBool(TRUE)
                /\ days = 30 => r.resp.hasOneYearValidity = JBool(FALSE)
                /\ days = YearDays => r.resp.hasOneYearValidity = JBool(FALSE)

\* C22 witness: server.mjs has answered a valid proof whose expiry date is
\* exactly one year from now, reporting hasOneYearValidity = false.
C22_Witness ==
    \E i \in Slots :
        /\ ReportsExpiry(req[i])
        /\ req[i].vres.expiryDate = DateAt(YearDays)
        /\ req[i].resp.hasOneYearValidity = JBool(FALSE)

\* C23: in the combined server with a healthy store, while a selfcheck row
\* for X exists, a /api/verify/self request with uuid = X and a non-empty
\* cosmosAddress is accepted on arrival, passes the existence check, and its
\* insert appends the row (X, that address, 'self') and is answered with the
\* 200 success envelope, whatever rows the zkpass table already holds; the
\* verifier is never called for it.
C23_AuditRowAuthorisesEveryBinding ==
    [][(InCombined /\ storeHealthy) =>
        \A i \in Slots :
            LET r == req[i]
                q == req'[i]
            IN  (q # r /\ q.ep = "self"
                    /\ NonEmptyText(q.body.cosmosAddress) /\ NonEmptyText(q.body.uuid)
                    /\ AuditRowExists(selfcheck, q.body.uuid)) =>
                    /\ ~q.called
                    /\ q.pc \in {"existsCheck", "selfWrite", "done"}
                    /\ q.pc = "existsCheck" => zkpass' = zkpass
                    /\ q.pc = "selfWrite" => (r.pc = "existsCheck" /\ zkpass' = zkpass)
                    /\ q.pc = "done" =>
                          /\ r.pc = "selfWrite"
                          /\ SuccessEnvelope(q.resp)
                          /\ zkpass' = Append(zkpass,
                                [address |-> q.body.cosmosAddress.s,
                                 identifier |-> q.body.uuid.s,
                                 provider |-> ProviderSelf])]_vars

\* C23 witness: X was verified with a twilight address; later a
\* /api/verify/self request bound X to another address and was answered 200,
\* so the zkpass table holds two 'self' rows for X with different addresses.
C23_Witness ==
    /\ InCombined
    /\ storeHealthy
    /\ \E i \in Slots :
         /\ req[i].ep = "self"
         /\ req[i].pc = "done"
         /\ ~req[i].called
         /\ SuccessEnvelope(req[i].resp)
         /\ req[i].body.cosmosAddress = JStr(CosmosAddr)
         /\ \E j, k \in 1..Len(zkpass) :
              /\ j < k
              /\ zkpass[j] = [address |-> TwilightAddr, identifier |-> req[i].body.uuid.s,
                              provider |-> ProviderSelf]
              /\ zkpass[k] = [address |-> CosmosAddr, identifier |-> req[i].body.uuid.s,
                              provider |-> ProviderSelf]

\* C24: in the combined server, in every reachable state, every zkpass row
\* with provider 'self' has a selfcheck row whose attestationId is the row's
\* identifier; a /api/verify request whose audit write failed has not called
\* saveVerification; and a /api/verify/self request that called
\* saveVerification has an audit row for its uuid.
C24_SelfRecordsHaveAuditRow ==
    InCombined =>
        /\ \A k \in 1..Len(zkpass) :
              zkpass[k].provider = ProviderSelf =>
                 \E j \in 1..Len(selfcheck) : selfcheck[j].attestationId = zkpass[k].identifier
        /\ \A i \in Slots :
             LET r == req[i]
             IN  /\ (r.ep = "verify" /\ Tried(r, "selfcheck") /\ r.pc # "auditWrite"
                        /\ ~Wrote(r, "selfcheck"))
                       => (~Tried(r, "zkpass") /\ ~Wrote(r, "zkpass"))
                 /\ (r.ep = "self" /\ Tried(r, "zkpass"))
                       => AuditRowExists(selfcheck, r.body.uuid)

\* C24 witness: the zkpass table holds two 'self' rows with different
\* addresses, the later one written by a finished /api/verify/self request.
C24_Witness ==
    /\ InCombined
    /\ \E j, k \in 1..Len(zkpass) :
         /\ zkpass[j].provider = ProviderSelf
         /\ zkpass[k].provider = ProviderSelf
         /\ zkpass[j].address # zkpass[k].address
    /\ \E i \in Slots :
         /\ req[i].ep = "self"
         /\ req[i].pc = "done"
         /\ Wrote(req[i], "zkpass")

\* C25 (as claimed): in the combined server, in every reachable state, every
\* zkpass row with provider 'self' has an address that starts with
\* 'twilight', whether /api/verify or /api/verify/self wrote it.
C25_SelfRecordsOnChain ==
    InCombined =>
        \A k \in 1..Len(zkpass) :
            zkpass[k].provider = ProviderSelf =>
                /\ Len(zkpass[k].address) >= Len(ChainPrefix)
                /\ SubSeq(zkpass[k].address, 1, Len(ChainPrefix)) = ChainPrefix

\* C26 (as claimed): in the combined server, every zkpass row inserted by a
\* /api/verify/zkpass request has as identifier the uniqueIdentifier that
\* zk.verify returned for that request.
C26_StoredIdentifierIsServers ==
    InCombined =>
        \A i \in Slots :
            LET r == req[i]
            IN  r.ep = "zkpass" =>
                    \A k \in 1..Len(r.wrote) :
                        /\ r.vres.uniqueIdentifier.t = "str"
                        /\ zkpass[r.wrote[k].idx].identifier = r.vres.uniqueIdentifier.s

\* C27 (as claimed): in the combined server, every finished
\* /api/verify/zkpass request for which saveVerification was called was
\* answered with match = true, whatever the JSON types of the client and
\* server identifiers.
C27_GateAgreesWithMatch ==
    InCombined =>
        \A i \in Slots :
            LET r == req[i]
            IN  (r.ep = "zkpass" /\ r.pc = "done" /\ Tried(r, "zkpass"))
                    => r.resp.match = JBool(TRUE)

\* C28: in server.mjs and the combined server, every step of a
\* /api/verify/self request past validation answers with the 200 success
\* envelope if and only if it inserts one zkpass row, which is then the
\* request's only write; an insert that fails, and an existence check that
\* fails although the audit row is there, are answered HTTP 500 with the
\* zkpass table unchanged.
C28_SelfResponseAgreesWithStore ==
    [][variant # "legacy" =>
        \A i \in Slots :
            LET r == req[i]
                q == req'[i]
            IN  (r.ep = "self" /\ q # r /\ r.pc \in {"existsCheck", "selfWrite"}) =>
                    /\ (q.pc = "done" /\ SuccessEnvelope(q.resp))
                          <=> (Len(zkpass') = Len(zkpass) + 1)
                    /\ Len(zkpass') = Len(zkpass) + 1 =>
                          /\ Extends(zkpass, zkpass')
                          /\ q.wrote = <<[table |-> "zkpass", idx |-> Len(zkpass')]>>
                    /\ Len(zkpass') # Len(zkpass) + 1 =>
                          /\ zkpass' = zkpass
                          /\ q.wrote = <<>>
                    /\ (r.pc = "selfWrite" /\ zkpass' = zkpass) => q.resp.code = 500
                    /\ (r.pc = "existsCheck" /\ q.pc = "done"
                            /\ AuditRowExists(selfcheck, r.body.uuid)) => q.resp.code = 500]_vars

\* C28 witness: the store failed the insert of a /api/verify/self request
\* whose audit row exists: the request was answered 500 and wrote nothing.
C28_Witness ==
    /\ ~storeHealthy
    /\ \E i \in Slots :
         /\ req[i].ep = "self"
         /\ req[i].pc = "done"
         /\ Tried(req[i], "zkpass")
         /\ req[i].wrote = <<>>
         /\ req[i].resp.code = 500
         /\ AuditRowExists(selfcheck, req[i].body.uuid)

====
